---------------------------- MODULE Spec2Model ----------------------------
(***************************************************************************)
(* A model of the raster codecs and compositors of bmper:                  *)
(*   - Rle8::decode / Rle8::encode            (src/src/encoding.rs)        *)
(*   - pcx::decode_line and the palette quantizer (src/src/pcx.rs)         *)
(*   - Bitmap::border and Bitmap::add_logo    (src/src/bmp.rs)             *)
(*   - BMPImage::load_from_file, decode_bitmap and border (src/src/bmp.rs) *)
(* Every loop of the source is modelled one iteration per step, so that    *)
(* the loop variables (x, y, the iterator position) are visible in the     *)
(* intermediate states.  Each operation has its own specification          *)
(* (SpecRle, SpecPcx, SpecBorder, SpecLogo, SpecPalette, SpecImage,        *)
(* SpecSplit, SpecConvert); all of them share the variables of the Bitmap  *)
(* the operations work on.                                                 *)
(***************************************************************************)
EXTENDS Integers, Sequences, FiniteSets, TLC

VARIABLES
    pc,          \* control position of the running operation
    result,      \* outcome of the operation: "none", "ok", "panic", an error
    width,       \* bmi_header.get_width()
    height,      \* bmi_header.get_height()
    bit_count,   \* bmi_header.get_bit_count()
    data,        \* Bitmap.data
    decoded,     \* Bitmap.decoded (None / Some(RLE8))
    data0,       \* history: Bitmap.data when the operation was entered
    it,          \* number of bytes the iterator over the buffer has yielded
    x,           \* loop local x
    y,           \* loop local y
    idx,         \* loop local idx
    decoded_bm,  \* Rle8::decode: the output vector under construction
    stop,        \* history: why Rle8::decode left its token loop
    r,           \* pcx::decode_line: the bytes of the reader, from its position
    rpos,        \* pcx::decode_line: number of bytes read from r
    row_stride,  \* pcx::decode_line: the row_stride argument
    scanline,    \* pcx::decode_line: the scanline under construction
    border_width,\* Bitmap::border: the border_width argument
    rng_stream,  \* Bitmap::border: the values rng.next_u32() cycles through
    rng_n,       \* Bitmap::border: number of draws made so far
    written,     \* history: the pixel slots <<first byte, shift>> Bitmap::border
                 \* or Bitmap::add_logo has assigned
    logo,        \* the logo file: header fields and the raster bytes stored
    logo_vec,    \* Bitmap::add_logo: the pixels logo_to_rgb_vec returned
    logo_it,     \* Bitmap::add_logo: number of pixels logo_iter has yielded
    x_logo,      \* Bitmap::add_logo: loop local x_logo
    y_logo,      \* Bitmap::add_logo: loop local y_logo
    palette,     \* Palette.palette: the source palette (PCXHeader.palette)
    palette_bit_count, \* Palette.bit_count
    frequency,   \* Palette.frequency: colour -> number of pixels
    cubes,       \* Palette.cubes
    step,        \* Palette::round_pcx_palette: the splitting round
    bmi_colors,  \* the colour table of the converted image
    bmi_header,  \* BMPImage.info.bmi_header: variant, compression, image size
    bf_size,     \* BMPImage.header.bf_size
    op,          \* the BMPImage method that is running
    image0       \* history: bmi_header and bf_size when the method was called

bitmapVars == <<width, height, bit_count, data, decoded, data0>>
loopVars   == <<it, x, y, idx>>
rleVars    == <<decoded_bm, stop>>
pcxVars    == <<r, rpos, row_stride, scanline>>
borderVars == <<border_width, rng_stream, rng_n>>
logoVars   == <<logo, logo_vec, logo_it, x_logo, y_logo>>
paletteVars == <<palette, palette_bit_count, frequency, cubes, step,
                 bmi_colors>>
imageVars  == <<bmi_header, bf_size, op, image0>>
vars == <<pc, result, bitmapVars, loopVars, rleVars, pcxVars, borderVars,
          written, logoVars, paletteVars, imageVars>>

\* what the RLE8 operations never touch
notRle == <<pcxVars, borderVars, written, logoVars, paletteVars, imageVars>>
\* what pcx::decode_line never touches
notPcx == <<bitmapVars, it, x, y, rleVars, borderVars, written, logoVars,
            paletteVars, imageVars>>
\* what Bitmap::border never touches
notBorder == <<rleVars, pcxVars, logoVars, paletteVars, imageVars>>
\* what Bitmap::add_logo never touches
notLogo == <<rleVars, pcxVars, borderVars, idx, paletteVars, imageVars>>
\* what the palette quantizer never touches
notPalette == <<bitmapVars, loopVars, rleVars, pcxVars, borderVars, written,
                logoVars, imageVars>>

\* the values of the variables an operation does not use
NoRle    == decoded_bm = <<>> /\ stop = "none"
NoPcx    == r = <<>> /\ rpos = 0 /\ row_stride = 0 /\ scanline = <<>>
NoBorder == border_width = 0 /\ rng_stream = <<0>> /\ rng_n = 0
NoLogo   == /\ logo = [width |-> 0, height |-> 0, bit_count |-> 0,
                       size_image |-> 0, bits |-> <<>>]
            /\ logo_vec = <<>> /\ logo_it = 0 /\ x_logo = 0 /\ y_logo = 0
NoPalette == /\ palette = <<>> /\ palette_bit_count = 0
             /\ frequency = <<>> /\ cubes = <<>> /\ step = 0
             /\ bmi_colors = <<>>
NoImage == /\ bmi_header = [kind |-> "Info", bi_compression |-> "RGB",
                            bi_size_image |-> 0]
           /\ bf_size = 0 /\ op = "none"
           /\ image0 = [bmi_header |-> bmi_header, bf_size |-> bf_size]

---------------------------------------------------------------------------
(* Bounds of the model *)

\* longest RLE8 input stream over the escape codes
MaxDataLen == 6
\* longest RLE8 input stream that also holds the count byte 255
MaxWideLen == 4
\* widest bitmap handed to Rle8::decode
MaxWidth == 3
\* tallest bitmap handed to Rle8::decode
MaxHeight == 2
\* longest PCX input stream
MaxPcxLen == 4
\* largest row_stride handed to pcx::decode_line
MaxStride == 3
\* largest width and height of a bitmap handed to Bitmap::border
MaxBorderDim == 5
\* largest border_width handed to Bitmap::border
MaxBorderWidth == 3
\* the destination of Bitmap::add_logo is up to this much wider and taller
\* than the logo margin
MaxDstExtra == 2
\* largest width and height of a logo
MaxLogoDim == 2
\* longest source palette handed to the quantizer
MaxPaletteLen == 4
\* largest Palette.bit_count
MaxBits == 2
\* width of the raster the pixel frequencies are counted on (its height is 1)
PaletteWidth == 2

---------------------------------------------------------------------------
(* Vec<u8> helpers *)

Byte == 0..255

\* n copies of v
Repeat(n, v) == [i \in 1..n |-> v]

\* Vec::resize(new_len, v): grow with v, or truncate
Resize(s, new_len, v) ==
    IF new_len >= Len(s)
    THEN s \o Repeat(new_len - Len(s), v)
    ELSE SubSeq(s, 1, new_len)

\* all sequences over S of length 0..n
SeqsUpTo(S, n) == UNION { [1..k -> S] : k \in 0..n }

Min(a, b) == IF a < b THEN a ELSE b
Max(a, b) == IF a > b THEN a ELSE b

\* Rust's i32 % (truncated remainder) for a divisor > 0
RemI32(a, b) == IF a >= 0 THEN a % b ELSE -((-a) % b)

---------------------------------------------------------------------------
(* RLE8: src/src/encoding.rs *)

RLE_MARK  == 0
RLE_EOL   == 0
RLE_EOB   == 1
RLE_DELTA == 2

\* the byte values the model's input streams are made of: the four escape
\* codes (3 doubles as the smallest absolute-mode count and as a pixel
\* value) and the largest count byte
RleCore == {0, 1, 2, 3}
RleBytes == RleCore \cup {255}

\* the input streams of the model
RleStreams == SeqsUpTo(RleCore, MaxDataLen) \cup SeqsUpTo(RleBytes, MaxWideLen)

\* it.next() is Some(_) for the k-th next byte
HasNext(k) == it + k <= Len(data)
\* the k-th next byte of the iterator
Peek(k) == data[it + k]

\* ((second + 1) / 2) * 2 evaluated in u8, release build (wrapping add)
WithWordPad(second) == (((second + 1) % 256) \div 2) * 2

\* second + 1 overflows u8
WordPadOverflows(second) == second + 1 > 255

\* entry of Rle8::decode on a bitmap that has not been decoded yet
DecodeStart ==
    /\ pc = "idle"
    /\ decoded = "None"
    /\ height > 0
    /\ decoded_bm' = <<>>
    /\ x' = 0
    /\ y' = height - 1
    /\ it' = 0
    /\ pc' = "loop"
    /\ UNCHANGED <<result, bitmapVars, idx, stop>>
    /\ UNCHANGED notRle

\* one of the two it.next() calls at the top of the loop yields None: break.
\* The stream is cut inside a token when one byte was left.
TokenMissing ==
    /\ pc = "loop"
    /\ ~HasNext(2)
    /\ stop' = IF HasNext(1) THEN "truncated" ELSE "end"
    /\ it' = Len(data)
    /\ pc' = "pad"
    /\ UNCHANGED <<result, bitmapVars, x, y, idx, decoded_bm>>
    /\ UNCHANGED notRle

\* (0x00, 0x01): end of bitmap, break
TokenEOB ==
    /\ pc = "loop"
    /\ HasNext(2)
    /\ Peek(1) = RLE_MARK /\ Peek(2) = RLE_EOB
    /\ stop' = "eob"
    /\ it' = it + 2
    /\ pc' = "pad"
    /\ UNCHANGED <<result, bitmapVars, x, y, idx, decoded_bm>>
    /\ UNCHANGED notRle

\* (0x00, 0x00): end of line
TokenEOL ==
    /\ pc = "loop"
    /\ HasNext(2)
    /\ Peek(1) = RLE_MARK /\ Peek(2) = RLE_EOL
    /\ LET line_pad == width - x
       IN  decoded_bm' = IF x > 0 /\ line_pad > 0
                         THEN Resize(decoded_bm, Len(decoded_bm) + line_pad, 0)
                         ELSE decoded_bm
    /\ x' = 0
    /\ y' = y - 1
    /\ it' = it + 2
    /\ UNCHANGED <<pc, result, bitmapVars, idx, stop>>
    /\ UNCHANGED notRle

\* (0x00, 0x02, dx, dy): delta
TokenDelta ==
    /\ pc = "loop"
    /\ HasNext(4)
    /\ Peek(1) = RLE_MARK /\ Peek(2) = RLE_DELTA
    /\ LET delta_x == Peek(3)
           delta_y == Peek(4)
           append  == delta_x + delta_y * width
       IN  /\ x' = x + delta_x
           /\ y' = y - delta_y
           /\ decoded_bm' = Resize(decoded_bm, Len(decoded_bm) + append, 0)
    /\ it' = it + 4
    /\ UNCHANGED <<pc, result, bitmapVars, idx, stop>>
    /\ UNCHANGED notRle

\* (0x00, 0x02) with dx or dy missing: break
TokenDeltaMissing ==
    /\ pc = "loop"
    /\ HasNext(2) /\ ~HasNext(4)
    /\ Peek(1) = RLE_MARK /\ Peek(2) = RLE_DELTA
    /\ stop' = "truncated"
    /\ it' = Len(data)
    /\ pc' = "pad"
    /\ UNCHANGED <<result, bitmapVars, x, y, idx, decoded_bm>>
    /\ UNCHANGED notRle

\* (0x00, n), n >= 3: absolute mode.  The for loop pushes every byte it
\* gets, the word padding included, and stops early when the input ends;
\* x advances by n in either case and the outer loop goes on.
TokenAbsolute ==
    /\ pc = "loop"
    /\ HasNext(2)
    /\ Peek(1) = RLE_MARK /\ Peek(2) >= 3
    /\ LET second == Peek(2)
           with_word_pad == WithWordPad(second)
           got == Min(with_word_pad, Len(data) - (it + 2))
       IN  /\ decoded_bm' = decoded_bm \o SubSeq(data, it + 3, it + 2 + got)
           /\ it' = it + 2 + got
           /\ x' = x + second
           /\ stop' = IF Len(data) - (it + 2) < second
                      THEN "short_payload" ELSE stop
    /\ UNCHANGED <<pc, result, bitmapVars, y, idx>>
    /\ UNCHANGED notRle

\* (0x00, 0xFF) in a build with overflow checks: second + 1 panics
TokenAbsoluteOverflow ==
    /\ pc = "loop"
    /\ HasNext(2)
    /\ Peek(1) = RLE_MARK /\ Peek(2) >= 3
    /\ WordPadOverflows(Peek(2))
    /\ it' = it + 2
    /\ pc' = "done"
    /\ result' = "panic"
    /\ UNCHANGED <<bitmapVars, x, y, idx, decoded_bm, stop>>
    /\ UNCHANGED notRle

\* the position after a repeat token has advanced x to nx
WrapX(nx) == IF nx >= width THEN RemI32(nx, width) ELSE nx
WrapY(nx) == IF nx >= width THEN y - 1 ELSE y

\* (count, value), count >= 1: encoded mode
TokenEncoded ==
    /\ pc = "loop"
    /\ HasNext(2)
    /\ Peek(1) /= RLE_MARK
    /\ LET first  == Peek(1)
           second == Peek(2)
       IN  /\ decoded_bm' = Resize(decoded_bm, Len(decoded_bm) + first, second)
           /\ x' = WrapX(x + first)
           /\ y' = WrapY(x + first)
    /\ it' = it + 2
    /\ UNCHANGED <<pc, result, bitmapVars, idx, stop>>
    /\ UNCHANGED notRle

\* the number of zero bytes appended after the loop
FinalAppend == width - x + width * y

\* after the loop: pad with zeros, tag the bitmap as decoded, store the raster
DecodeFinish ==
    /\ pc = "pad"
    /\ data' = IF FinalAppend > 0
               THEN Resize(decoded_bm, Len(decoded_bm) + FinalAppend, 0)
               ELSE decoded_bm
    /\ decoded' = "RLE8"
    /\ pc' = "done"
    /\ result' = "ok"
    /\ UNCHANGED <<width, height, bit_count, data0, loopVars, rleVars>>
    /\ UNCHANGED notRle

\* Rle8::decode called on a bitmap that is already decoded: early return
DecodeAgain ==
    /\ pc = "done"
    /\ result = "ok"
    /\ decoded /= "None"
    /\ height > 0
    /\ pc' = "again"
    /\ UNCHANGED <<result, bitmapVars, loopVars, rleVars>>
    /\ UNCHANGED notRle

\* Rle8::encode on a bitmap that was never decoded: returns at once
EncodeNothing ==
    /\ pc = "idle"
    /\ decoded = "None"
    /\ pc' = "encoded"
    /\ result' = "ok"
    /\ UNCHANGED <<bitmapVars, loopVars, rleVars>>
    /\ UNCHANGED notRle

\* Rle8::encode on a decoded bitmap: unimplemented!()
EncodeUnimplemented ==
    /\ pc = "done"
    /\ result = "ok"
    /\ decoded /= "None"
    /\ pc' = "encoded"
    /\ result' = "panic"
    /\ UNCHANGED <<bitmapVars, loopVars, rleVars>>
    /\ UNCHANGED notRle

InitRle ==
    /\ pc = "idle"
    /\ result = "none"
    /\ width \in 1..MaxWidth
    /\ height \in 1..MaxHeight
    /\ bit_count = 8
    /\ data \in RleStreams
    /\ decoded = "None"
    /\ data0 = data
    /\ it = 0 /\ x = 0 /\ y = 0 /\ idx = 0
    /\ decoded_bm = <<>>
    /\ stop = "none"
    /\ written = {}
    /\ NoPcx /\ NoBorder /\ NoLogo /\ NoPalette /\ NoImage

NextRle ==
    \/ DecodeStart
    \/ TokenMissing
    \/ TokenEOB
    \/ TokenEOL
    \/ TokenDelta
    \/ TokenDeltaMissing
    \/ TokenAbsolute
    \/ TokenAbsoluteOverflow
    \/ TokenEncoded
    \/ DecodeFinish
    \/ DecodeAgain
    \/ EncodeNothing
    \/ EncodeUnimplemented

SpecRle == InitRle /\ [][NextRle]_vars

\* C1: whatever the token stream, the buffer Rle8::decode leaves in the
\* bitmap has exactly width * height bytes.
RleSizeExact ==
    (pc = "done" /\ result = "ok") => Len(data) = width * height

\* C2: the RLE8 encoder is available for every decoded bitmap: every call of
\* Rle8::encode returns, and on a decoded raster it leaves the bitmap
\* re-encoded (no longer tagged as decoded), so that decoding it again can
\* give the raster back.
RleEncoderAvailable ==
    pc = "encoded" => (result = "ok" /\ decoded = "None")

\* C3: whenever the input ends inside a token (after the first byte of a
\* two-byte token, inside the (dx, dy) pair of a delta, or before all n
\* payload bytes of an absolute run), Rle8::decode reports a TruncatedStream
\* failure and returns no raster.
RleTruncationReported ==
    (pc = "done" /\ stop \in {"truncated", "short_payload"})
        => result = "TruncatedStream"

---------------------------------------------------------------------------
(* PCX scanline decoder: src/src/pcx.rs, decode_line *)

\* 0b1100_0000
counter_marker == 192

\* byte & counter_marker == counter_marker: both top bits are set
IsRunHeader(byte) == (byte \div 64) % 4 = 3

\* a count that keeps only five bits
RunCountFiveBits(byte) == byte % 32

\* byte & !counter_marker: the low six bits
RunCount(byte) == byte % 64

\* the byte values the model's PCX streams are made of: a literal, run
\* headers with the counts 0, 1, 2, 3 and 63
PcxBytes == {7, 192, 193, 194, 195, 255}

\* r.read_u8() succeeds for the k-th next byte
CanRead(k) == rpos + k <= Len(r)

\* entry of decode_line
LineStart ==
    /\ pc = "idle"
    /\ scanline' = <<>>
    /\ idx' = row_stride
    /\ pc' = "line"
    /\ UNCHANGED <<result, r, rpos, row_stride>>
    /\ UNCHANGED notPcx

\* a byte that is no run header: a literal, appended once
LineLiteral ==
    /\ pc = "line"
    /\ idx > 0
    /\ CanRead(1)
    /\ ~IsRunHeader(r[rpos + 1])
    /\ LET run_count == 1
           run_value == r[rpos + 1]
       IN  /\ idx' = idx - run_count
           /\ scanline' = Resize(scanline, Len(scanline) + run_count, run_value)
    /\ rpos' = rpos + 1
    /\ UNCHANGED <<pc, result, r, row_stride>>
    /\ UNCHANGED notPcx

\* a run header and its value byte
LineRun ==
    /\ pc = "line"
    /\ idx > 0
    /\ CanRead(2)
    /\ IsRunHeader(r[rpos + 1])
    /\ LET run_count == RunCount(r[rpos + 1])
           run_value == r[rpos + 2]
       IN  /\ idx' = idx - run_count
           /\ scanline' = Resize(scanline, Len(scanline) + run_count, run_value)
    /\ rpos' = rpos + 2
    /\ UNCHANGED <<pc, result, r, row_stride>>
    /\ UNCHANGED notPcx

\* r.read_u8()? fails: the source ended before the row was filled
LineEof ==
    /\ pc = "line"
    /\ idx > 0
    /\ \/ ~CanRead(1)
       \/ CanRead(1) /\ IsRunHeader(r[rpos + 1]) /\ ~CanRead(2)
    /\ rpos' = Len(r)
    /\ pc' = "done"
    /\ result' = "UnexpectedEof"
    /\ UNCHANGED <<idx, r, row_stride, scanline>>
    /\ UNCHANGED notPcx

\* idx <= 0: Ok(scanline)
LineReturn ==
    /\ pc = "line"
    /\ idx <= 0
    /\ pc' = "done"
    /\ result' = "ok"
    /\ UNCHANGED <<idx, pcxVars>>
    /\ UNCHANGED notPcx

InitPcx ==
    /\ pc = "idle"
    /\ result = "none"
    /\ r \in SeqsUpTo(PcxBytes, MaxPcxLen)
    /\ rpos = 0
    /\ row_stride \in 0..MaxStride
    /\ scanline = <<>>
    /\ idx = 0
    /\ width = 0 /\ height = 0 /\ bit_count = 0
    /\ data = <<>> /\ decoded = "None" /\ data0 = <<>>
    /\ it = 0 /\ x = 0 /\ y = 0
    /\ written = {}
    /\ NoRle /\ NoBorder /\ NoLogo /\ NoPalette /\ NoImage

NextPcx ==
    \/ LineStart
    \/ LineLiteral
    \/ LineRun
    \/ LineEof
    \/ LineReturn

SpecPcx == InitPcx /\ [][NextPcx]_vars

\* C4: decode_line returns a scanline of exactly row_stride bytes or fails;
\* a returned scanline is never longer or shorter than row_stride.
LineExact ==
    (pc = "done" /\ result = "ok") => Len(scanline) = row_stride

---------------------------------------------------------------------------
(* Bitmap::border: src/src/bmp.rs *)

\* bytes per row, rows aligned to 32 bits
RowStride(bc, w) == ((bc * w + 31) \div 32) * 4

\* (bc * width + 31)/32*4 - width * bc/8
BytesPad(bc, w) == ((bc * w + 31) \div 32) * 4 - (w * bc) \div 8

\* the k-th next value of rng.next_u32()
NextU32(k) == rng_stream[((rng_n + k) % Len(rng_stream)) + 1]

\* the random streams of the model: all zero bits, all one bits (31 of
\* them), and a mixed one
RngStreams == { <<0>>, <<2147483647>>, <<1, 70000, 255>> }

\* the byte every position of a raster holds before the operation
DataFills == {0, 165}

\* it.next() called n times more: the iterator stops at the end
Advance(n) == Min(it + n, Len(data))

\* the border test of the 1, 4 and 8 bpp branch
InBorderPacked(px, py) ==
    \/ px <= border_width
    \/ px > width - border_width
    \/ py <= border_width
    \/ py > height - border_width

\* the border test of the 16 and 24 bpp branches
InBorderRgb(px, py) ==
    \/ px < border_width
    \/ px > width - border_width
    \/ py < border_width
    \/ py > height - border_width

\* *b = (*b & !((max_color - 1) << shift) as u8) | (value << shift)
SetField(b, shift, bc, value) ==
    b - ((b \div (2 ^ shift)) % (2 ^ bc)) * (2 ^ shift) + value * (2 ^ shift)

\* data with the bytes from index i on replaced by the bytes of s
Store(d, i, s) ==
    [k \in 1..Len(d) |-> IF k >= i /\ k < i + Len(s) THEN s[k - i + 1] ELSE d[k]]

\* entry of Bitmap::border
BorderEnter ==
    /\ pc = "idle"
    /\ bit_count \in {1, 4, 8, 16, 24}
    /\ x' = 0 /\ y' = 0 /\ it' = 0 /\ idx' = 0
    /\ pc' = IF bit_count = 16 THEN "rgb16"
             ELSE IF bit_count = 24 THEN "rgb24" ELSE "packed"
    /\ UNCHANGED <<result, bitmapVars, borderVars, written>>
    /\ UNCHANGED notBorder

\* 0 | 32 => unimplemented!()
BorderUnimplemented ==
    /\ pc = "idle"
    /\ bit_count \in {0, 32}
    /\ pc' = "done"
    /\ result' = "panic"
    /\ UNCHANGED <<bitmapVars, loopVars, borderVars, written>>
    /\ UNCHANGED notBorder

\* 1, 4, 8 bpp: it.next() yields the next byte b, the for loop starts
PackedFetch ==
    /\ pc = "packed"
    /\ idx = 0
    /\ it < Len(data)
    /\ it' = it + 1
    /\ idx' = 1
    /\ UNCHANGED <<pc, result, bitmapVars, x, y, borderVars, written>>
    /\ UNCHANGED notBorder

\* 1, 4, 8 bpp: it.next() yields None
PackedEnd ==
    /\ pc = "packed"
    /\ idx = 0
    /\ it >= Len(data)
    /\ pc' = "done"
    /\ result' = "ok"
    /\ UNCHANGED <<bitmapVars, loopVars, borderVars, written>>
    /\ UNCHANGED notBorder

\* 1, 4, 8 bpp: one iteration of the for loop over the pixels of byte b
PackedPixel ==
    /\ pc = "packed"
    /\ idx >= 1
    /\ LET bc        == bit_count
           pixels    == 8 \div bc
           max_color == 2 ^ bc
           shift     == (pixels - idx) * bc
           inside    == InBorderPacked(x, y)
           value     == NextU32(0) % max_color
       IN  /\ data' = IF inside
                      THEN [data EXCEPT ![it] = SetField(@, shift, bc, value)]
                      ELSE data
           /\ rng_n' = IF inside THEN rng_n + 1 ELSE rng_n
           /\ written' = IF inside THEN written \cup {<<it, shift>>} ELSE written
           /\ IF x + 1 >= width
              THEN /\ it' = Advance(BytesPad(bc, width))
                   /\ x' = 0
                   /\ y' = y + 1
                   /\ idx' = 0
              ELSE /\ it' = it
                   /\ x' = x + 1
                   /\ y' = y
                   /\ idx' = IF idx = pixels THEN 0 ELSE idx + 1
    /\ UNCHANGED <<pc, result, width, height, bit_count, decoded, data0,
                   border_width, rng_stream>>
    /\ UNCHANGED notBorder

\* the two bytes the 16 bpp branch writes from three draws
Rgb16Bytes ==
    LET mask == 31
        c1 == NextU32(0) % 32
        c2 == NextU32(1) % 32
        c3 == NextU32(2) % 32
        b1 == (c1 % 32) * 4 + (c2 % 32) \div 8
        b2 == (((c2 % 32) * 32) % 256) + (c3 % 32)
    IN  <<b1, b2>>

\* the three bytes the 24 bpp branch writes from three draws
Rgb24Bytes ==
    LET max_color == 65535
    IN  << (NextU32(0) % max_color) % 256,
           (NextU32(1) % max_color) % 256,
           (NextU32(2) % max_color) % 256 >>

\* 16 and 24 bpp: one iteration of the loop, over a pixel of n bytes
RgbPixel(n, bytes) ==
    /\ it + n <= Len(data)
    /\ LET inside == InBorderRgb(x, y)
       IN  /\ data' = IF inside THEN Store(data, it + 1, bytes) ELSE data
           /\ rng_n' = IF inside THEN rng_n + 3 ELSE rng_n
           /\ written' = IF inside THEN written \cup {<<it + 1, 0>>} ELSE written
    /\ IF x + 1 >= width
       THEN /\ it' = Min(it + n + BytesPad(bit_count, width), Len(data))
            /\ x' = 0
            /\ y' = y + 1
       ELSE /\ it' = it + n
            /\ x' = x + 1
            /\ y' = y
    /\ UNCHANGED <<pc, result, width, height, bit_count, decoded, data0, idx,
                   border_width, rng_stream>>
    /\ UNCHANGED notBorder

Rgb16Pixel ==
    /\ pc = "rgb16"
    /\ RgbPixel(2, Rgb16Bytes)

Rgb24Pixel ==
    /\ pc = "rgb24"
    /\ RgbPixel(3, Rgb24Bytes)

\* 16 and 24 bpp: the iterator cannot yield a whole pixel any more: break
RgbEnd ==
    /\ \/ pc = "rgb16" /\ it + 2 > Len(data)
       \/ pc = "rgb24" /\ it + 3 > Len(data)
    /\ pc' = "done"
    /\ result' = "ok"
    /\ UNCHANGED <<bitmapVars, loopVars, borderVars, written>>
    /\ UNCHANGED notBorder

InitBorder ==
    /\ pc = "idle"
    /\ result = "none"
    /\ width \in 1..MaxBorderDim
    /\ height \in 1..MaxBorderDim
    /\ bit_count \in {1, 4, 8, 16, 24, 32}
    /\ \E fill \in DataFills :
           data = Repeat(RowStride(bit_count, width) * height, fill)
    /\ decoded = "None"
    /\ data0 = data
    /\ border_width \in -1..MaxBorderWidth
    /\ rng_stream \in RngStreams
    /\ rng_n = 0
    /\ written = {}
    /\ it = 0 /\ x = 0 /\ y = 0 /\ idx = 0
    /\ NoRle /\ NoPcx /\ NoLogo /\ NoPalette /\ NoImage

NextBorder ==
    \/ BorderEnter
    \/ BorderUnimplemented
    \/ PackedFetch
    \/ PackedEnd
    \/ PackedPixel
    \/ Rgb16Pixel
    \/ Rgb24Pixel
    \/ RgbEnd

SpecBorder == InitBorder /\ [][NextBorder]_vars

\* the slot <<first byte, shift>> that holds pixel (px, py) of the raster
PixelSlot(px, py) ==
    LET pixels == IF bit_count < 8 THEN 8 \div bit_count ELSE 1
    IN  << RowStride(bit_count, width) * py + (px * bit_count) \div 8 + 1,
           IF bit_count < 8 THEN (pixels - 1 - (px % pixels)) * bit_count ELSE 0 >>

\* C5: Bitmap::border with border_width <= 0 is a no-op: every byte of the
\* raster is the same after the call as before it.
BorderNoop ==
    (pc = "done" /\ result = "ok" /\ border_width <= 0) => data = data0

\* C6: Bitmap::border with border_width >= max(width, height) / 2 assigns a
\* random draw to every pixel of the raster.
BorderCoversAll ==
    (pc = "done" /\ result = "ok" /\ 2 * border_width >= Max(width, height))
        => \A px \in 0..(width - 1), py \in 0..(height - 1) :
               PixelSlot(px, py) \in written

---------------------------------------------------------------------------
(* Bitmap::add_logo and logo_to_rgb_vec: src/src/bmp.rs *)

\* let logo_margin = 15; // pixels
logo_margin == 15

\* BMPGenericInfoHeader::get_bitmap_size
GetBitmapSize(size_image, w, h, bc) ==
    IF size_image = 0 THEN (w * h * bc) \div 8 ELSE size_image

\* BMPImage::load_from_file: the bitmap is the first get_bitmap_size() bytes
\* that follow the headers in the file
LoadBitmap(file) ==
    SubSeq(file.bits, 1,
           GetBitmapSize(file.size_image, file.width, file.height,
                         file.bit_count))

\* a size test that forgets the height
LogoFitsWidthOnly(logo_width, logo_height) ==
    ~(logo_width > width - logo_margin)

\* the size test of add_logo passes
LogoFits(logo_width, logo_height) ==
    ~(logo_width > width - logo_margin \/ logo_height > height - logo_margin)

\* the depth test of add_logo on the destination passes
SourceDepthOk(bc) == bc = 24

\* a depth test that accepts every logo
LogoDepthAny(bc) == TRUE

\* the depth test of logo_to_rgb_vec passes
LogoDepthOk(bc) == bc = 24

\* the loop of logo_to_rgb_vec: d the logo's bitmap, p the number of bytes
\* the iterator has yielded, lx the local x, acc the result so far
RECURSIVE LogoRgbLoop(_, _, _, _, _, _)
LogoRgbLoop(d, p, lx, w, pad, acc) ==
    IF p + 3 > Len(d)
    THEN acc
    ELSE LET pixel == <<d[p + 1], d[p + 2], d[p + 3]>>
         IN  IF lx + 1 >= w
             THEN LogoRgbLoop(d, p + 3 + pad, 0, w, pad, Append(acc, pixel))
             ELSE LogoRgbLoop(d, p + 3, lx + 1, w, pad, Append(acc, pixel))

\* logo_to_rgb_vec on a 24 bpp logo file
LogoToRgbVec(file) ==
    LogoRgbLoop(LoadBitmap(file), 0, 0, file.width,
                BytesPad(file.bit_count, file.width), <<>>)

\* add_logo: the destination does not have 24 bits per pixel
AddLogoSourceDepth ==
    /\ pc = "idle"
    /\ ~SourceDepthOk(bit_count)
    /\ pc' = "done"
    /\ result' = "Only24bppSource"
    /\ UNCHANGED <<bitmapVars, it, x, y, written, logoVars>>
    /\ UNCHANGED notLogo

\* add_logo: the logo does not fit
AddLogoTooLarge ==
    /\ pc = "idle"
    /\ SourceDepthOk(bit_count)
    /\ ~LogoFits(logo.width, logo.height)
    /\ pc' = "done"
    /\ result' = "LogoTooLarge"
    /\ UNCHANGED <<bitmapVars, it, x, y, written, logoVars>>
    /\ UNCHANGED notLogo

\* add_logo: logo_to_rgb_vec(logo_file)? fails on the logo's depth
AddLogoLogoDepth ==
    /\ pc = "idle"
    /\ SourceDepthOk(bit_count)
    /\ LogoFits(logo.width, logo.height)
    /\ ~LogoDepthOk(logo.bit_count)
    /\ pc' = "done"
    /\ result' = "Only24bppLogo"
    /\ UNCHANGED <<bitmapVars, it, x, y, written, logoVars>>
    /\ UNCHANGED notLogo

\* add_logo: all tests pass, the logo is loaded and the scan starts
AddLogoEnter ==
    /\ pc = "idle"
    /\ SourceDepthOk(bit_count)
    /\ LogoFits(logo.width, logo.height)
    /\ LogoDepthOk(logo.bit_count)
    /\ logo_vec' = LogoToRgbVec(logo)
    /\ logo_it' = 0
    /\ x' = 0 /\ y' = 0 /\ x_logo' = 0 /\ y_logo' = 0
    /\ it' = 0
    /\ pc' = "logo"
    /\ UNCHANGED <<result, bitmapVars, written, logo>>
    /\ UNCHANGED notLogo

\* the destination pixel (px, py) lies in the logo's columns and rows
InLogoArea(px, py) ==
    /\ px >= width - logo.width - logo_margin
    /\ py >= height - logo.height - logo_margin

\* add_logo: one iteration of the while-let loop over the destination
AddLogoPixel ==
    /\ pc = "logo"
    /\ it + 3 <= Len(data)
    /\ LET take  == /\ InLogoArea(x, y)
                    /\ x_logo < logo.width /\ y_logo < logo.height
                    /\ logo_it < Len(logo_vec)
           x_logo1 == IF take THEN x_logo + 1 ELSE x_logo
       IN  /\ data' = IF take THEN Store(data, it + 1, logo_vec[logo_it + 1])
                      ELSE data
           /\ written' = IF take THEN written \cup {<<it + 1, 0>>} ELSE written
           /\ logo_it' = IF take THEN logo_it + 1 ELSE logo_it
           /\ IF x + 1 >= width
              THEN /\ it' = Min(it + 3 + BytesPad(bit_count, width), Len(data))
                   /\ x' = 0
                   /\ y' = y + 1
                   /\ x_logo' = IF x_logo1 > 0 THEN 0 ELSE x_logo1
                   /\ y_logo' = IF x_logo1 > 0 THEN y_logo + 1 ELSE y_logo
              ELSE /\ it' = it + 3
                   /\ x' = x + 1
                   /\ y' = y
                   /\ x_logo' = x_logo1
                   /\ y_logo' = y_logo
    /\ UNCHANGED <<pc, result, width, height, bit_count, decoded, data0,
                   logo, logo_vec>>
    /\ UNCHANGED notLogo

\* add_logo: the iterator cannot yield a whole pixel any more: Ok(())
AddLogoEnd ==
    /\ pc = "logo"
    /\ it + 3 > Len(data)
    /\ pc' = "done"
    /\ result' = "ok"
    /\ UNCHANGED <<bitmapVars, it, x, y, written, logoVars>>
    /\ UNCHANGED notLogo

\* a logo file: the raster stored in the file has the byte k at position k;
\* the header's image size is 0 (allowed for uncompressed bitmaps) or the
\* raster's size
LogoFile(w, h, bc, zero_size) ==
    [width |-> w, height |-> h, bit_count |-> bc,
     size_image |-> IF zero_size THEN 0 ELSE RowStride(bc, w) * h,
     bits |-> [k \in 1..(RowStride(bc, w) * h) |-> k]]

\* the logo files of the model
LogoFiles ==
    { LogoFile(w, h, bc, z) :
      w \in 1..MaxLogoDim, h \in 1..MaxLogoDim, bc \in {8, 24},
      z \in BOOLEAN }

InitLogo ==
    /\ pc = "idle"
    /\ result = "none"
    /\ width \in (logo_margin + 1)..(logo_margin + MaxDstExtra)
    /\ height \in (logo_margin + 1)..(logo_margin + MaxDstExtra)
    /\ bit_count \in {8, 24}
    /\ \E fill \in DataFills :
           data = Repeat(RowStride(bit_count, width) * height, fill)
    /\ decoded = "None"
    /\ data0 = data
    /\ logo \in LogoFiles
    /\ logo_vec = <<>> /\ logo_it = 0 /\ x_logo = 0 /\ y_logo = 0
    /\ written = {}
    /\ it = 0 /\ x = 0 /\ y = 0 /\ idx = 0
    /\ NoRle /\ NoPcx /\ NoBorder /\ NoPalette /\ NoImage

NextLogo ==
    \/ AddLogoSourceDepth
    \/ AddLogoTooLarge
    \/ AddLogoLogoDepth
    \/ AddLogoEnter
    \/ AddLogoPixel
    \/ AddLogoEnd

SpecLogo == InitLogo /\ [][NextLogo]_vars

\* the logo is too large for the destination, as the claims state it
LogoTooLarge ==
    logo.width > width - 15 \/ logo.height > height - 15

\* C7: when the logo does not fit (logo_width > dst_width - 15 or
\* logo_height > dst_height - 15), add_logo returns an error and no byte of
\* the destination raster is ever modified.
LogoTooLargeRejected ==
    LogoTooLarge =>
        /\ data = data0
        /\ pc \in {"idle", "done"}
        /\ pc = "done" => result \in {"LogoTooLarge", "Only24bppSource"}

\* C7 witness: a 24 bpp destination was handed a logo that does not fit, and
\* the call has returned the too-large error.
LogoTooLargeSeen ==
    /\ pc = "done"
    /\ bit_count = 24
    /\ logo.bit_count = 24
    /\ LogoTooLarge
    /\ result = "LogoTooLarge"

\* the byte position k of the destination must hold after a successful
\* add_logo: the logo's byte inside the logo's rectangle, the old byte
\* elsewhere (row padding included)
LogoExpected(k) ==
    LET stride == RowStride(24, width)
        row == (k - 1) \div stride
        col == (k - 1) % stride
        px  == col \div 3
        c   == col % 3
        x0  == width - logo.width - 15
        y0  == height - logo.height - 15
    IN  IF /\ col < 3 * width
           /\ px >= x0 /\ px < x0 + logo.width
           /\ row >= y0 /\ row < y0 + logo.height
        THEN logo.bits[RowStride(24, logo.width) * (row - y0)
                       + 3 * (px - x0) + c + 1]
        ELSE data0[k]

\* C8: after a successful add_logo the destination pixel (x0 + i, y0 + j) is
\* the logo pixel (i, j) byte for byte, and every other byte is unchanged.
LogoCopied ==
    (pc = "done" /\ result = "ok")
        => \A k \in 1..Len(data) : data[k] = LogoExpected(k)

\* C9 as stated: unless both rasters have 24 bits per pixel, add_logo fails
\* with an unsupported-depth error and the destination is unmodified.
LogoDepthErrorOnly ==
    (pc = "done" /\ (bit_count /= 24 \/ logo.bit_count /= 24))
        => /\ result \in {"Only24bppSource", "Only24bppLogo"}
           /\ data = data0

\* C9 amended: unless both rasters have 24 bits per pixel, add_logo fails
\* before any byte of the destination is modified; the error is the
\* unsupported-depth error, except that for a 24 bpp destination a logo of
\* another depth that also does not fit is reported as too large.
LogoDepthRejected ==
    (bit_count /= 24 \/ logo.bit_count /= 24) =>
        /\ data = data0
        /\ pc \in {"idle", "done"}
        /\ pc = "done" =>
              \/ result \in {"Only24bppSource", "Only24bppLogo"}
              \/ result = "LogoTooLarge" /\ bit_count = 24 /\ LogoTooLarge

\* C9 witness: a 24 bpp destination and a fitting logo of another depth:
\* the call has returned the logo's depth error.
LogoDepthErrorSeen ==
    /\ pc = "done"
    /\ bit_count = 24
    /\ logo.bit_count /= 24
    /\ ~LogoTooLarge
    /\ result = "Only24bppLogo"

---------------------------------------------------------------------------
(* The palette quantizer: src/src/pcx.rs, Cube and Palette *)

\* const LUMA, scaled by 10000
LumaR == 2126
LumaG == 7152
LumaB == 722

\* the colours the model's palettes are made of, as <<red, green, blue>>:
\* a red one and two blue ones that are close to each other
Colors == { <<250, 0, 0>>, <<10, 20, 200>>, <<0, 10, 200>> }

\* what `as u8` can make of a NaN: 0 where the cast saturates, and any
\* byte where it is undefined (255 stands for the other values)
NaNAsU8 == {0, 255}

\* the sum of channel ch over a sequence of colours
RECURSIVE SumChannel(_, _)
SumChannel(colors, ch) ==
    IF colors = <<>> THEN 0
    ELSE colors[1][ch] + SumChannel(Tail(colors), ch)

\* the axis Cube::split sorts along, as its comparator chooses it
SplitAxis(colors) ==
    LET red   == SumChannel(colors, 1) * LumaR
        green == SumChannel(colors, 2) * LumaG
        blue  == SumChannel(colors, 3) * LumaB
        max   == IF red < green THEN green
                 ELSE IF red < blue THEN blue ELSE red
    IN  IF max = red THEN "red"
        ELSE IF max = green THEN "green" ELSE "blue"

\* the tuple the comparator of Cube::split compares
SortKey(c, axis) ==
    IF axis = "red" THEN <<c[1], c[2], c[3]>>
    ELSE IF axis = "green" THEN <<c[2], c[1], c[3]>>
    ELSE <<c[3], c[2], c[1]>>

\* the order of tuples of three numbers
TupleLess(a, b) ==
    \/ a[1] < b[1]
    \/ a[1] = b[1] /\ a[2] < b[2]
    \/ a[1] = b[1] /\ a[2] = b[2] /\ a[3] < b[3]

\* the elements of a sequence
Range(s) == { s[i] : i \in 1..Len(s) }

\* colors.sort_by(..): the colours of a cube are distinct, so the sorted
\* order is the one in which i - 1 colours come before the i-th
SortColors(colors, axis) ==
    LET S == Range(colors)
    IN  [i \in 1..Len(colors) |->
            CHOOSE c \in S :
                Cardinality({ d \in S : TupleLess(SortKey(d, axis),
                                                  SortKey(c, axis)) }) = i - 1]

\* a split in which the colour at the cut goes to both halves
CubeSplitOverlap(colors) ==
    LET sorted   == SortColors(colors, SplitAxis(colors))
        split_at == Len(sorted) \div 2
    IN  << SubSeq(sorted, 1, split_at + 1),
           SubSeq(sorted, split_at + 1, Len(sorted)) >>

\* Cube::split: <<what stays in the cube, the colours of the new cube>>
CubeSplit(colors) ==
    LET sorted   == SortColors(colors, SplitAxis(colors))
        split_at == Len(sorted) \div 2
    IN  << SubSeq(sorted, 1, split_at),
           SubSeq(sorted, split_at + 1, Len(sorted)) >>

NewCube(colors) == [colors |-> colors, color |-> <<0, 0, 0>>]

\* a round that leaves the cubes with fewer than two colours alone
SplitRoundSkipSmall(cs) ==
    LET big == SelectSeq(cs, LAMBDA c : Len(c.colors) >= 2)
    IN  [i \in 1..Len(cs) |->
            IF Len(cs[i].colors) >= 2
            THEN [cs[i] EXCEPT !.colors = CubeSplit(@)[1]]
            ELSE cs[i]]
        \o [i \in 1..Len(big) |-> NewCube(CubeSplit(big[i].colors)[2])]

\* one round of round_pcx_palette: every cube is split, the new cubes are
\* appended after the old ones
SplitRound(cs) ==
    [i \in 1..Len(cs) |-> [cs[i] EXCEPT !.colors = CubeSplit(@)[1]]]
    \o [i \in 1..Len(cs) |-> NewCube(CubeSplit(cs[i].colors)[2])]

\* the sum of freq over a sequence of colours
RECURSIVE SumFreq(_, _)
SumFreq(colors, freq) ==
    IF colors = <<>> THEN 0
    ELSE freq[colors[1]] + SumFreq(Tail(colors), freq)

\* the sum of channel ch weighted by freq
RECURSIVE SumWeighted(_, _, _)
SumWeighted(colors, ch, freq) ==
    IF colors = <<>> THEN 0
    ELSE colors[1][ch] * freq[colors[1]]
         + SumWeighted(Tail(colors), ch, freq)

\* (a / total).round() for a >= 0, total > 0: halves round away from zero
RoundDiv(a, total) == (2 * a + total) \div (2 * total)

\* Cube::set_color: the colour of a cube; 0.0 / 0.0 is NaN, cast to nan
SetColor(colors, freq, nan) ==
    LET total == SumFreq(colors, freq)
    IN  IF total = 0
        THEN <<nan, nan, nan>>
        ELSE << RoundDiv(SumWeighted(colors, 1, freq), total),
                RoundDiv(SumWeighted(colors, 2, freq), total),
                RoundDiv(SumWeighted(colors, 3, freq), total) >>

\* Palette::color_delta
ColorDelta(a, b) ==
    (b[1] - a[1]) * (b[1] - a[1]) + (b[2] - a[2]) * (b[2] - a[2])
    + (b[3] - a[3]) * (b[3] - a[3])

\* the loop of Palette::cube_color from cube i on: the index of the nearest
RECURSIVE NearestFrom(_, _, _, _)
NearestFrom(c, i, nearest_cube, delta) ==
    IF i > Len(cubes) THEN nearest_cube
    ELSE LET next_delta == ColorDelta(c, cubes[i].color)
         IN  IF delta > next_delta
             THEN NearestFrom(c, i + 1, i, next_delta)
             ELSE NearestFrom(c, i + 1, nearest_cube, delta)

\* Palette::cube_color
CubeColor(c) ==
    cubes[NearestFrom(c, 2, 1, ColorDelta(c, cubes[1].color))].color

\* Palette::compute_frequency: the pixels of the raster per colour
ComputeFrequency ==
    /\ pc = "idle"
    /\ LET stride == RowStride(8, width)
           pixel_at(line, px) == data[stride * line + px + 1]
           counter == [i \in 1..Len(palette) |->
               Cardinality({ p \in (0..(height - 1)) \X (0..(width - 1)) :
                             pixel_at(p[1], p[2]) = i - 1 })]
           sum_of(c) == SumChannel(
               [i \in 1..Len(palette) |->
                   <<IF palette[i] = c THEN counter[i] ELSE 0>>], 1)
       IN  frequency' = [c \in Range(palette) |-> sum_of(c)]
    /\ pc' = "seed"
    /\ UNCHANGED <<result, palette, palette_bit_count, cubes, step, bmi_colors>>
    /\ UNCHANGED notPalette

\* round_pcx_palette: the first cube holds the distinct colours of the
\* palette, in the order the HashSet iterates over them
RoundSeed ==
    /\ pc = "seed"
    /\ \E order \in [1..Cardinality(Range(palette)) -> Range(palette)] :
           /\ Range(order) = Range(palette)
           /\ cubes' = <<NewCube(order)>>
    /\ step' = 1
    /\ pc' = "split"
    /\ UNCHANGED <<result, palette, palette_bit_count, frequency, bmi_colors>>
    /\ UNCHANGED notPalette

\* round_pcx_palette: one round of the for loop over step
RoundSplit ==
    /\ pc = "split"
    /\ step < palette_bit_count + 1
    /\ cubes' = SplitRound(cubes)
    /\ step' = step + 1
    /\ UNCHANGED <<pc, result, palette, palette_bit_count, frequency,
                   bmi_colors>>
    /\ UNCHANGED notPalette

\* round_pcx_palette: set_color on every cube
RoundSetColor ==
    /\ pc = "split"
    /\ ~(step < palette_bit_count + 1)
    /\ \E nan \in NaNAsU8 :
           cubes' = [i \in 1..Len(cubes) |->
               [cubes[i] EXCEPT !.color = SetColor(cubes[i].colors,
                                                   frequency, nan)]]
    /\ pc' = "table"
    /\ UNCHANGED <<result, palette, palette_bit_count, frequency, step,
                   bmi_colors>>
    /\ UNCHANGED notPalette

\* pcx_256colors_to_bmp_16colors: the colour table, one entry per entry of
\* the source palette
ColorTable ==
    /\ pc = "table"
    /\ bmi_colors' = [i \in 1..Len(palette) |-> CubeColor(palette[i])]
    /\ pc' = "done"
    /\ result' = "ok"
    /\ UNCHANGED <<palette, palette_bit_count, frequency, cubes, step>>
    /\ UNCHANGED notPalette

\* 2^n
Pow2(n) == 2 ^ n

InitPalette ==
    /\ pc = "idle"
    /\ result = "none"
    /\ palette_bit_count \in 1..MaxBits
    /\ palette \in UNION { [1..n -> Colors] :
                           n \in Pow2(palette_bit_count)..MaxPaletteLen }
    /\ width = PaletteWidth
    /\ height = 1
    /\ bit_count = 8
    /\ \E px \in [1..width -> 0..(Len(palette) - 1)] :
           data = Resize(px, RowStride(8, width) * height, 0)
    /\ decoded = "None"
    /\ data0 = data
    /\ frequency = <<>> /\ cubes = <<>> /\ step = 0 /\ bmi_colors = <<>>
    /\ written = {}
    /\ it = 0 /\ x = 0 /\ y = 0 /\ idx = 0
    /\ NoRle /\ NoPcx /\ NoBorder /\ NoLogo /\ NoImage

NextPalette ==
    \/ ComputeFrequency
    \/ RoundSeed
    \/ RoundSplit
    \/ RoundSetColor
    \/ ColorTable

SpecPalette == InitPalette /\ [][NextPalette]_vars

\* C10: with k = 2^bit_count and a source palette of at least k entries, the
\* quantizer has exactly k boxes, each with a representative colour, however
\* few distinct colours the palette holds; and every index of the source
\* palette is mapped to the colour of one of the boxes.
QuantizerReturnsK ==
    /\ pc \in {"table", "done"} =>
          /\ Len(cubes) = Pow2(palette_bit_count)
          /\ \A i \in 1..Len(cubes) : cubes[i].color \in Byte \X Byte \X Byte
    /\ pc = "done" =>
          /\ DOMAIN bmi_colors = 1..Len(palette)
          /\ \A i \in 1..Len(palette) :
                 \E j \in 1..Len(cubes) : bmi_colors[i] = cubes[j].color

\* C10 witness: a palette of at least k entries with fewer than k distinct
\* colours has been quantized.
QuantizerFewColorsSeen ==
    /\ pc = "done"
    /\ Len(palette) >= Pow2(palette_bit_count)
    /\ Cardinality(Range(palette)) < Pow2(palette_bit_count)
    /\ Len(bmi_colors) = Len(palette)

---------------------------------------------------------------------------
(* Cube::set_color and Palette::compute_frequency *)

\* the distance of n from zero
Abs(n) == IF n < 0 THEN -n ELSE n

\* C11: once set_color has run, the colour of every final box is, on each
\* channel, the frequency-weighted average of the box's member colours
\* rounded to the nearest integer: the box has a non-zero total frequency
\* and the colour is within 1/2 of sum(channel * freq) / total.
SetColorWeightedAverage ==
    pc \in {"table", "done"} =>
        \A i \in 1..Len(cubes) :
            LET total == SumFreq(cubes[i].colors, frequency)
            IN  /\ total > 0
                /\ \A ch \in 1..3 :
                       2 * Abs(cubes[i].color[ch] * total
                               - SumWeighted(cubes[i].colors, ch, frequency))
                           <= total

---------------------------------------------------------------------------
(* BMPImage: load_from_file, decode_bitmap and border: src/src/bmp.rs *)

\* longest RLE8 stream of an image file (a few longer ones are added)
MaxImageLen == 3
\* widest image
MaxImageWidth == 4
\* tallest image
MaxImageHeight == 2

BMP_FILE_HEADER_SIZE == 14
BMP_INFO_HEADER_SIZE == 40
BMP_V4_INFO_HEADER_SIZE == 108
BMP_V5_INFO_HEADER_SIZE == 124

\* the variants of BMPGenericInfoHeader
HeaderKinds == {"Info", "V4Info", "V5Info"}

\* a header of the given variant
NewHeader(kind, compression, size_image) ==
    CASE kind = "Info" ->
             [kind |-> kind, bi_compression |-> compression,
              bi_size_image |-> size_image]
      [] kind = "V4Info" ->
             [kind |-> kind, bv4_v4_compression |-> compression,
              bv4_size_image |-> size_image]
      [] kind = "V5Info" ->
             [kind |-> kind, bv5_compression |-> compression,
              bv5_size_image |-> size_image]

\* BMPGenericInfoHeader::get_compression_type
GetCompressionType(h) ==
    CASE h.kind = "Info" -> h.bi_compression
      [] h.kind = "V4Info" -> h.bv4_v4_compression
      [] h.kind = "V5Info" -> h.bv5_compression

\* the size_image field get_bitmap_size matches on
SizeImage(h) ==
    CASE h.kind = "Info" -> h.bi_size_image
      [] h.kind = "V4Info" -> h.bv4_size_image
      [] h.kind = "V5Info" -> h.bv5_size_image

\* a set_encoding that forgets the V4 and V5 variants
SetEncodingInfoOnly(h, enc) ==
    IF h.kind = "Info" THEN [h EXCEPT !.bi_compression = enc] ELSE h

\* BMPGenericInfoHeader::set_encoding
SetEncoding(h, enc) ==
    CASE h.kind = "Info" -> [h EXCEPT !.bi_compression = enc]
      [] h.kind = "V4Info" -> [h EXCEPT !.bv4_v4_compression = enc]
      [] h.kind = "V5Info" -> [h EXCEPT !.bv5_compression = enc]

\* decode_bitmap: size_image += delta on the variant at hand
AddSizeImage(h, delta) ==
    CASE h.kind = "Info" -> [h EXCEPT !.bi_size_image = @ + delta]
      [] h.kind = "V4Info" -> [h EXCEPT !.bv4_size_image = @ + delta]
      [] h.kind = "V5Info" -> [h EXCEPT !.bv5_size_image = @ + delta]

\* the bytes of a file before its bitmap: file header, info header and the
\* colour table BMPInfo::load_from_reader reads for depths below 16
OffsetBits(kind, bc) ==
    BMP_FILE_HEADER_SIZE
    + (CASE kind = "Info" -> BMP_INFO_HEADER_SIZE
         [] kind = "V4Info" -> BMP_V4_INFO_HEADER_SIZE
         [] kind = "V5Info" -> BMP_V5_INFO_HEADER_SIZE)
    + (IF bc < 16 THEN 4 * (2 ^ bc) ELSE 0)

\* the RLE8 streams stored in the model's image files
ImageStreams ==
    (SeqsUpTo(RleCore, MaxImageLen) \ {<<>>})
    \cup { <<0, 255>>, <<0, 2, 1, 0>>, <<3, 5, 0, 0>>, <<0, 3, 1, 2, 3, 0>> }

\* the image files of the model, as <<compression, bit_count, header's
\* image size, stored bitmap>> for a given width and height: uncompressed
\* rasters of 8 and 24 bpp whose header gives the image size or leaves it 0,
\* RLE8 streams, RLE8 streams whose header leaves the image size 0 (long
\* enough for read_exact to fill width * height bytes), and one RLE4 file
ImageFiles(w, h) ==
    { <<"RGB", bc, IF z THEN 0 ELSE RowStride(bc, w) * h,
        Repeat(RowStride(bc, w) * h, fill)>> :
      bc \in {8, 24}, z \in BOOLEAN, fill \in DataFills }
    \cup { <<"RLE8", 8, Len(s), s>> : s \in ImageStreams }
    \cup { <<"RLE8", 8, 0, s>> : s \in { t \in ImageStreams : Len(t) >= w * h } }
    \cup { <<"RLE4", 4, 2, <<0, 1>>>> }

\* BMPImage::decode_bitmap on an uncompressed image: return
DecodeBitmapRaw ==
    /\ pc = "idle"
    /\ op \in {"decode_bitmap", "border"}
    /\ GetCompressionType(bmi_header) = "RGB"
    /\ pc' = "tagged"
    /\ UNCHANGED <<result, bitmapVars, loopVars, rleVars, imageVars>>
    /\ UNCHANGED <<pcxVars, borderVars, written, logoVars, paletteVars>>

\* BMPImage::decode_bitmap on an RLE8 image: Rle8::decode is entered
DecodeBitmapRle8 ==
    /\ op \in {"decode_bitmap", "border"}
    /\ GetCompressionType(bmi_header) = "RLE8"
    /\ DecodeStart

\* BMPImage::decode_bitmap on any other compression: unimplemented!()
DecodeBitmapUnimplemented ==
    /\ pc = "idle"
    /\ op \in {"decode_bitmap", "border"}
    /\ GetCompressionType(bmi_header) \in {"RLE4", "BITFIELDS", "JPEG", "PNG"}
    /\ pc' = "done"
    /\ result' = "panic"
    /\ UNCHANGED <<bitmapVars, loopVars, rleVars, imageVars>>
    /\ UNCHANGED <<pcxVars, borderVars, written, logoVars, paletteVars>>

\* BMPImage::decode_bitmap after Rle8::decode has returned: the header is
\* tagged RGB and the sizes follow the buffer
DecodeBitmapTag ==
    /\ pc = "done"
    /\ result = "ok"
    /\ op \in {"decode_bitmap", "border"}
    /\ LET tagged == SetEncoding(bmi_header, "RGB")
           delta  == Len(data) - GetBitmapSize(SizeImage(tagged), width,
                                               height, bit_count)
       IN  /\ bmi_header' = AddSizeImage(tagged, delta)
           /\ bf_size' = bf_size + delta
    /\ pc' = "tagged"
    /\ UNCHANGED <<result, bitmapVars, loopVars, rleVars, op, image0>>
    /\ UNCHANGED <<pcxVars, borderVars, written, logoVars, paletteVars>>

\* BMPImage::border after decode_bitmap has returned: Bitmap::border is
\* called on the buffer
BorderCall ==
    /\ pc = "tagged"
    /\ op = "border"
    /\ op' = "border_bitmap"
    /\ pc' = "idle"
    /\ data0' = data
    /\ UNCHANGED <<result, width, height, bit_count, data, decoded, loopVars,
                   rleVars, bmi_header, bf_size, image0>>
    /\ UNCHANGED <<pcxVars, borderVars, written, logoVars, paletteVars>>

\* a decoder that never takes Rle8::decode's early return
AlreadyDecodedNever(d) == FALSE

\* Rle8::decode: self.decoded is not None, the bitmap was decoded before
AlreadyDecoded(d) == d /= "None"

\* Rle8::decode called on the bitmap of an RLE8 image after decode_bitmap
\* has decoded it: the early return, or else the entry of the token loop
RleDecodeSecond ==
    /\ pc = "tagged"
    /\ op = "decode_bitmap"
    /\ GetCompressionType(image0.bmi_header) = "RLE8"
    /\ height > 0
    /\ op' = "decode_again"
    /\ data0' = data
    /\ IF AlreadyDecoded(decoded)
       THEN UNCHANGED <<pc, loopVars, rleVars>>
       ELSE /\ decoded_bm' = <<>>
            /\ x' = 0
            /\ y' = height - 1
            /\ it' = 0
            /\ pc' = "loop"
            /\ UNCHANGED <<idx, stop>>
    /\ UNCHANGED <<result, width, height, bit_count, data, decoded,
                   bmi_header, bf_size, image0>>
    /\ UNCHANGED <<pcxVars, borderVars, written, logoVars, paletteVars>>

\* BMPImage::decode_bitmap called a second time: an image tagged RGB
\* returns at once; one still tagged RLE8 goes through Rle8::decode's early
\* return and has its sizes adjusted again
DecodeBitmapAgain ==
    /\ pc = "tagged"
    /\ op = "decode_bitmap"
    /\ GetCompressionType(bmi_header) \in {"RGB", "RLE8"}
    /\ GetCompressionType(bmi_header) = "RLE8" => AlreadyDecoded(decoded)
    /\ op' = "decode_bitmap_again"
    /\ data0' = data
    /\ image0' = [bmi_header |-> bmi_header, bf_size |-> bf_size]
    /\ IF GetCompressionType(bmi_header) = "RGB"
       THEN UNCHANGED <<bmi_header, bf_size>>
       ELSE LET tagged == SetEncoding(bmi_header, "RGB")
                delta  == Len(data) - GetBitmapSize(SizeImage(tagged), width,
                                                    height, bit_count)
            IN  /\ bmi_header' = AddSizeImage(tagged, delta)
                /\ bf_size' = bf_size + delta
    /\ UNCHANGED <<pc, result, width, height, bit_count, data, decoded,
                   loopVars, rleVars>>
    /\ UNCHANGED <<pcxVars, borderVars, written, logoVars, paletteVars>>

\* Bitmap::border as BMPImage::border calls it
ImageBorderEnter ==
    /\ op = "border_bitmap"
    /\ BorderEnter

\* the image as BMPImage::load_from_file returns it: the headers of the file
\* and the first get_bitmap_size() bytes of the stored bitmap
InitImage ==
    /\ pc = "idle"
    /\ result = "none"
    /\ width \in 1..MaxImageWidth
    /\ height \in 1..MaxImageHeight
    /\ op \in {"decode_bitmap", "border"}
    /\ \E kind \in HeaderKinds, file \in ImageFiles(width, height) :
           /\ bit_count = file[2]
           /\ bmi_header = NewHeader(kind, file[1], file[3])
           /\ bf_size = OffsetBits(kind, file[2]) + Len(file[4])
           /\ data = SubSeq(file[4], 1,
                            GetBitmapSize(file[3], width, height, file[2]))
    /\ image0 = [bmi_header |-> bmi_header, bf_size |-> bf_size]
    /\ decoded = "None"
    /\ data0 = data
    /\ it = 0 /\ x = 0 /\ y = 0 /\ idx = 0
    /\ border_width = 1
    /\ rng_stream = <<1, 70000, 255>>
    /\ rng_n = 0
    /\ written = {}
    /\ NoRle /\ NoPcx /\ NoLogo /\ NoPalette

NextImage ==
    \/ DecodeBitmapRaw
    \/ DecodeBitmapRle8
    \/ DecodeBitmapUnimplemented
    \/ TokenMissing
    \/ TokenEOB
    \/ TokenEOL
    \/ TokenDelta
    \/ TokenDeltaMissing
    \/ TokenAbsolute
    \/ TokenAbsoluteOverflow
    \/ TokenEncoded
    \/ DecodeFinish
    \/ DecodeBitmapTag
    \/ RleDecodeSecond
    \/ DecodeBitmapAgain
    \/ BorderCall
    \/ ImageBorderEnter
    \/ PackedFetch
    \/ PackedEnd
    \/ PackedPixel
    \/ Rgb24Pixel
    \/ RgbEnd

SpecImage == InitImage /\ [][NextImage]_vars

\* the bitmap is in the raw state: an uncompressed image as load_from_file
\* returned it, or any image after decode_bitmap
RawState ==
    \/ pc = "idle" /\ op \in {"decode_bitmap", "border"}
                   /\ GetCompressionType(bmi_header) = "RGB"
    \/ pc = "tagged"

\* C12: whenever the bitmap is in the raw state (after load_from_file of an
\* uncompressed image, after decode_bitmap of an RLE8 image), its buffer
\* has row_stride * height bytes, row_stride = ceil(bit_count * width / 32) * 4.
RasterSizeAligned ==
    RawState => Len(data) = RowStride(bit_count, width) * height

\* C13: after BMPImage::decode_bitmap on an RLE8 image the buffer is the
\* decoded raster (what Rle8::decode produced, followed by its zero padding)
\* and the header's compression type is RGB, whatever the header variant;
\* and while and after BMPImage::border runs Bitmap::border on the decoded
\* buffer the header is still tagged RGB.
DecodeBitmapTagsRaw ==
    /\ (pc = "tagged" /\ decoded = "RLE8") =>
          /\ GetCompressionType(bmi_header) = "RGB"
          /\ Len(data) >= Len(decoded_bm)
          /\ \A k \in 1..Len(data) :
                 data[k] = IF k <= Len(decoded_bm) THEN decoded_bm[k] ELSE 0
    /\ op = "border_bitmap" => GetCompressionType(bmi_header) = "RGB"

\* C13 witness: BMPImage::border has finished on an image that was loaded
\* as RLE8 with a V5 header.
BorderOnRle8Seen ==
    /\ op = "border_bitmap"
    /\ pc = "done"
    /\ result = "ok"
    /\ decoded = "RLE8"
    /\ bmi_header.kind = "V5Info"
    /\ GetCompressionType(image0.bmi_header) = "RLE8"

---------------------------------------------------------------------------
(* Rle8::decode, token by token *)

\* the decoder is about to process the two-byte token (first, second)
AtToken(first, second) ==
    pc = "loop" /\ HasNext(2) /\ Peek(1) = first /\ Peek(2) = second

\* C14: the end-of-line escape (0x00, 0x00) met at a column x with
\* 0 <= x < width appends width - x zero bytes (the rest of the row, the
\* whole row when x = 0) and moves the position to (0, y - 1).
EolPadsRow ==
    [][(AtToken(RLE_MARK, RLE_EOL) /\ 0 <= x /\ x < width)
          => /\ decoded_bm' = decoded_bm \o Repeat(width - x, 0)
             /\ x' = 0
             /\ y' = y - 1]_vars

\* the decoder's position (px, py) is the position of the next pixel when
\* len bytes have been produced (rows are decoded from row height - 1 down)
Tracked(len, px, py) == len = (height - 1 - py) * width + px

\* C15: a repeat token (count, value) with count >= 1 appends exactly count
\* copies of value and advances x by count, wrapping x to x mod width with a
\* decrement of y when x reaches or passes width; so a position that was the
\* position of the next pixel before the token still is after it.
RepeatAdvances ==
    [][(pc = "loop" /\ HasNext(2) /\ Peek(1) >= 1)
          => LET count == Peek(1)
                 value == Peek(2)
             IN  /\ decoded_bm' = decoded_bm \o Repeat(count, value)
                 /\ x' = IF x + count >= width
                         THEN (x + count) % width ELSE x + count
                 /\ Tracked(Len(decoded_bm), x, y)
                        => Tracked(Len(decoded_bm'), x', y')]_vars

\* C16: an absolute-mode token (0x00, n) with n >= 3 whose payload (n bytes,
\* and one padding byte when n is odd) is in the input appends exactly the
\* n payload bytes, consumes the padding byte without appending it, and
\* advances x by n.
AbsoluteAppendsPayload ==
    [][(pc = "loop" /\ HasNext(2) /\ Peek(1) = RLE_MARK /\ Peek(2) >= 3
           /\ HasNext(2 + Peek(2) + (Peek(2) % 2)))
          => LET n == Peek(2)
             IN  /\ decoded_bm' = decoded_bm \o SubSeq(data, it + 3, it + 2 + n)
                 /\ it' = it + 2 + n + (n % 2)
                 /\ x' = x + n]_vars

---------------------------------------------------------------------------
(* pcx::decode_line, token by token *)

\* decode_line run as a program: it always takes its next step
SpecPcxFair == SpecPcx /\ WF_vars(NextPcx)

\* the scanline a sequence of whole tokens stands for: a byte with both top
\* bits set is followed by a value repeated (low six bits) times, any other
\* byte stands for itself
RECURSIVE Expand(_)
Expand(s) ==
    IF s = <<>> THEN <<>>
    ELSE IF s[1] >= 192
         THEN IF Len(s) < 2 THEN <<>>
              ELSE Repeat(s[1] - 192, s[2]) \o Expand(SubSeq(s, 3, Len(s)))
         ELSE <<s[1]>> \o Expand(Tail(s))

\* C17: the scanline decode_line builds, and returns, is the concatenation
\* in input order of the runs its input tokens stand for; a call that finds
\* the input exhausted ends in an error at once, and every call ends.
LineIsRuns ==
    /\ [](pc \in {"line", "done"} /\ result /= "UnexpectedEof"
             => scanline = Expand(SubSeq(r, 1, rpos)))
    /\ [][(pc = "line" /\ idx > 0 /\ ~CanRead(1))
             => (pc' = "done" /\ result' = "UnexpectedEof")]_vars
    /\ <>(pc = "done")

\* C17 witness: a call has returned a scanline after a run header with the
\* count 0, which appended nothing, and a literal.
LineZeroRunSeen ==
    /\ pc = "done"
    /\ result = "ok"
    /\ rpos = 3
    /\ r[1] = counter_marker
    /\ scanline = <<r[3]>>

---------------------------------------------------------------------------
(* Bitmap::border, pixel by pixel *)

\* the border predicate of the 1, 4, 8 bpp branch, as the claims state it
InBorder(px, py) ==
    \/ px <= border_width
    \/ px > width - border_width
    \/ py <= border_width
    \/ py > height - border_width

\* the value pixel (px, py) has in the raster d
PixelValue(d, px, py) ==
    LET slot == PixelSlot(px, py)
    IN  IF bit_count <= 8
        THEN (d[slot[1]] \div (2 ^ slot[2])) % (2 ^ bit_count)
        ELSE SubSeq(d, slot[1], slot[1] + (bit_count \div 8) - 1)

\* C18: at every depth Bitmap::border overwrites pixel (x, y) with random
\* data exactly when x <= bw or x > width - bw or y <= bw or y > height - bw,
\* and every other pixel keeps its value.
BorderSelectsSame ==
    (pc = "done" /\ result = "ok")
        => \A px \in 0..(width - 1), py \in 0..(height - 1) :
               /\ PixelSlot(px, py) \in written <=> InBorder(px, py)
               /\ ~InBorder(px, py)
                      => PixelValue(data, px, py) = PixelValue(data0, px, py)

\* C19: at depths 1, 4 and 8, whenever the scan of Bitmap::border is at a
\* pixel it tracks as (x, y) of the raster, the byte and the bit offset it
\* works on are those of pixel (x, y): byte row_stride * y + x / pixels and
\* bit offset (pixels - 1 - x mod pixels) * depth, with pixels = 8 / depth.
BorderAddressing ==
    (pc = "packed" /\ idx >= 1 /\ y < height)
        => <<it, ((8 \div bit_count) - idx) * bit_count>> = PixelSlot(x, y)

---------------------------------------------------------------------------
(* Cube::split on its own: src/src/pcx.rs *)

\* largest number of colours of the cube that is split
MaxSplitLen == 3

\* the colours the split cubes are made of: black (all scores equal), one
\* colour strong on each channel, and a second blue one
SplitColors ==
    { <<0, 0, 0>>, <<250, 0, 0>>, <<10, 200, 0>>, <<0, 10, 200>>,
      <<0, 20, 100>> }

\* a cube of distinct colours, in any order
InitSplit ==
    /\ pc = "cube"
    /\ result = "none"
    /\ \E n \in 0..MaxSplitLen :
           /\ palette \in [1..n -> SplitColors]
           /\ Cardinality(Range(palette)) = n
    /\ cubes = <<NewCube(palette)>>
    /\ palette_bit_count = 1
    /\ frequency = <<>> /\ step = 1 /\ bmi_colors = <<>>
    /\ width = 0 /\ height = 0 /\ bit_count = 0
    /\ data = <<>> /\ decoded = "None" /\ data0 = <<>>
    /\ it = 0 /\ x = 0 /\ y = 0 /\ idx = 0
    /\ written = {}
    /\ NoRle /\ NoPcx /\ NoBorder /\ NoLogo /\ NoImage

\* c.split() on the cube, the new cube pushed after it
SplitCube ==
    /\ pc = "cube"
    /\ cubes' = SplitRound(cubes)
    /\ pc' = "halves"
    /\ UNCHANGED <<result, palette, palette_bit_count, frequency, step,
                   bmi_colors>>
    /\ UNCHANGED notPalette

NextSplit == SplitCube

SpecSplit == InitSplit /\ [][NextSplit]_vars

\* the channel with the highest score, equal scores choosing red before
\* green before blue
HighestAxis(colors) ==
    LET sR == SumChannel(colors, 1) * LumaR
        sG == SumChannel(colors, 2) * LumaG
        sB == SumChannel(colors, 3) * LumaB
    IN  IF sR >= sG /\ sR >= sB THEN "red"
        ELSE IF sG >= sB THEN "green" ELSE "blue"

\* C20: Cube::split sorts the cube's colours along the channel with the
\* highest score (0.2126 * sum R, 0.7152 * sum G, 0.0722 * sum B; equal
\* scores choose R before G before B), the other channels breaking ties, and
\* cuts at index floor(n / 2): the cube keeps the colours before the cut and
\* the new cube gets the rest.
SplitAlongHighest ==
    pc = "halves" =>
        LET sorted == SortColors(palette, HighestAxis(palette))
            n      == Len(palette)
        IN  /\ Len(cubes) = 2
            /\ cubes[1].colors = SubSeq(sorted, 1, n \div 2)
            /\ cubes[2].colors = SubSeq(sorted, (n \div 2) + 1, n)

---------------------------------------------------------------------------
(* Palette::round_pcx_palette: the boxes *)

\* C21: a box that holds a single colour is never split, whatever rounds
\* remain (a round leaves it as it is and makes no new box from it); hence
\* no box is ever empty.
SingleColourNeverSplit ==
    /\ [](\A i \in 1..Len(cubes) : cubes[i].colors /= <<>>)
    /\ [][(pc = "split" /\ step < palette_bit_count + 1)
             => \A i \in 1..Len(cubes) :
                    Len(cubes[i].colors) = 1 => cubes'[i] = cubes[i]]_vars

\* C22: every entry of the output colour table is the representative colour
\* of the final box that contains the colour of the source palette entry
\* with the same index.
RemapToContainingBox ==
    pc = "done" =>
        \A i \in 1..Len(palette) :
            \E j \in 1..Len(cubes) :
                /\ palette[i] \in Range(cubes[j].colors)
                /\ bmi_colors[i] = cubes[j].color

\* the distinct colours of the source palette in ascending order
AscendingSeed ==
    SortColors(CHOOSE o \in [1..Cardinality(Range(palette)) -> Range(palette)] :
                   Range(o) = Range(palette),
               "red")

\* n splitting rounds
RECURSIVE SplitRounds(_, _)
SplitRounds(cs, n) == IF n = 0 THEN cs ELSE SplitRounds(SplitRound(cs), n - 1)

\* the boxes of the run that enumerates the distinct colours in ascending
\* order and in which a division by zero yields the byte nan
BoxesOf(nan) ==
    LET cs == SplitRounds(<<NewCube(AscendingSeed)>>, palette_bit_count)
    IN  [i \in 1..Len(cs) |->
            [cs[i] EXCEPT !.color = SetColor(cs[i].colors, frequency, nan)]]

PositionInvariant ==
    pc \in {"loop", "pad"} => Tracked(Len(decoded_bm), x, y)

SetColorTotalPositive ==
    [][(pc = "split" /\ ~(step < palette_bit_count + 1))
          => \A i \in 1..Len(cubes) :
                 SumFreq(cubes[i].colors, frequency) > 0]_vars


\* C27: for every count byte n in 3..255 of an absolute run, the padded
\* payload length ((n + 1) / 2) * 2 is computed without 8-bit overflow: the
\* decoder does not fail and moves past that many payload bytes (or to the
\* end of the stream when fewer are left); for n = 255 the length is 256.
WordPadNoOverflow ==
    [][(pc = "loop" /\ HasNext(2) /\ Peek(1) = RLE_MARK /\ Peek(2) >= 3)
          => LET n      == Peek(2)
                 padded == ((n + 1) \div 2) * 2
             IN  /\ result' /= "panic"
                 /\ it' = it + 2 + Min(padded, Len(data) - (it + 2))]_vars


---------------------------------------------------------------------------
(* pcx_256colors_to_bmp_16colors: the output raster, src/src/pcx.rs:313-346 *)

\* widest PCX image below the widths picked around the i16 limits
MaxConvertWidth == 9
\* tallest PCX image
MaxConvertHeight == 2

\* the widths of the model: small ones, the widest for which 8 * width + 31
\* fits an i16, the next one, and widths at which the i16 product wraps
ConvertWidths == (1..MaxConvertWidth) \cup {4092, 4093, 8192, 8196, 32767}

\* a value wrapped to i16, as the release build's arithmetic does
I16Wrap(n) == ((n + 32768) % 65536) - 32768

\* Rust's integer division (towards zero) for a divisor > 0
TruncDiv(a, b) == IF a >= 0 THEN a \div b ELSE -((-a) \div b)

\* 8 * header.width + 31 leaves the i16 range: a build with overflow checks
\* panics
StrideOverflows(w) == 8 * w + 31 > 32767

\* (8 * header.width + 31)/32*4 evaluated in i16, release build.  A negative
\* value stands for the usize the cast sign-extends it to (2^64 + value).
BmpRowStride(w) == I16Wrap(TruncDiv(I16Wrap(I16Wrap(8 * w) + 31), 32) * 4)

\* 14 /*header size*/ + 40 /*info header size*/ + 4*256 /*palette size*/
file_header_size == BMP_FILE_HEADER_SIZE + BMP_INFO_HEADER_SIZE + 4 * 256

\* Vec::reverse
Reverse(s) == [i \in 1..Len(s) |-> s[Len(s) + 1 - i]]

\* the stride expression overflows in a build with overflow checks
ConvertStridePanic ==
    /\ pc = "idle"
    /\ StrideOverflows(width)
    /\ pc' = "done"
    /\ result' = "panic"
    /\ UNCHANGED <<bitmapVars, loopVars, rleVars, pcxVars, borderVars,
                   written, logoVars, paletteVars, imageVars>>

\* bmp_row_stride, bitmap_size and dst_bmp: the headers carry bitmap_size,
\* the buffer is allocated.  Vec::with_capacity panics (capacity overflow)
\* when the stride is a sign-extended negative number.
ConvertNew ==
    /\ pc = "idle"
    /\ LET bmp_row_stride == BmpRowStride(width)
           bitmap_size    == bmp_row_stride * height
       IN  IF bmp_row_stride < 0
           THEN /\ pc' = "done"
                /\ result' = "panic"
                /\ UNCHANGED <<data, idx, bmi_header, bf_size>>
           ELSE /\ bmi_header' = NewHeader("Info", "RGB", bitmap_size)
                /\ bf_size' = file_header_size + bitmap_size
                /\ data' = <<>>
                /\ idx' = 0
                /\ pc' = "lines"
                /\ UNCHANGED result
    /\ UNCHANGED <<width, height, bit_count, decoded, data0, it, x, y>>
    /\ UNCHANGED <<rleVars, pcxVars, borderVars, written, logoVars,
                   paletteVars, op, image0>>

\* one round of the loop over the rows: the scanline decode_line returned
\* (pcx_row_stride bytes, or one more when a run passed the end of the row)
\* is resized to bmp_row_stride, reversed and appended
ConvertLine ==
    /\ pc = "lines"
    /\ idx < height
    /\ \E fill \in DataFills, n \in {row_stride, row_stride + 1} :
           data' = data \o Reverse(Resize([i \in 1..n |-> (fill + i) % 256],
                                          BmpRowStride(width), 0))
    /\ idx' = idx + 1
    /\ UNCHANGED <<pc, result, width, height, bit_count, decoded, data0,
                   it, x, y>>
    /\ UNCHANGED <<rleVars, pcxVars, borderVars, written, logoVars,
                   paletteVars, imageVars>>

\* decode_line fails: the error is returned
ConvertLineFails ==
    /\ pc = "lines"
    /\ idx < height
    /\ pc' = "done"
    /\ result' = "UnexpectedEof"
    /\ UNCHANGED <<bitmapVars, loopVars, rleVars, pcxVars, borderVars,
                   written, logoVars, paletteVars, imageVars>>

\* all rows are read: the buffer is reversed.  The quantizer that follows
\* (lines 348-357) is SpecPalette.
ConvertReverse ==
    /\ pc = "lines"
    /\ ~(idx < height)
    /\ data' = Reverse(data)
    /\ pc' = "done"
    /\ result' = "ok"
    /\ UNCHANGED <<width, height, bit_count, decoded, data0, loopVars>>
    /\ UNCHANGED <<rleVars, pcxVars, borderVars, written, logoVars,
                   paletteVars, imageVars>>

\* the PCX header as PCXHeader::load_from_reader returns it for an 8 bpp
\* file: colorplanes = 1, so pcx_row_stride = bytesperline
InitConvert ==
    /\ pc = "idle"
    /\ result = "none"
    /\ width \in ConvertWidths
    /\ height \in 1..MaxConvertHeight
    /\ bit_count = 8
    /\ row_stride \in {width, width + 1}
    /\ r = <<>> /\ rpos = 0 /\ scanline = <<>>
    /\ data = <<>>
    /\ decoded = "None"
    /\ data0 = data
    /\ it = 0 /\ x = 0 /\ y = 0 /\ idx = 0
    /\ written = {}
    /\ NoRle /\ NoBorder /\ NoLogo /\ NoPalette /\ NoImage

NextConvert ==
    \/ ConvertStridePanic
    \/ ConvertNew
    \/ ConvertLine
    \/ ConvertLineFails
    \/ ConvertReverse

SpecConvert == InitConvert /\ [][NextConvert]_vars

\* C28: the output row stride (8 * width + 31) / 32 * 4 is computed without
\* 16-bit signed overflow for every PCX width in 1..32767: the conversion
\* does not panic, the stride is a multiple of 4 that is >= width, and the
\* header's image size and the output buffer are stride * height bytes.
StrideNoOverflow ==
    /\ result /= "panic"
    /\ pc = "lines" \/ (pc = "done" /\ result = "ok") =>
          /\ BmpRowStride(width) % 4 = 0
          /\ BmpRowStride(width) >= width
          /\ SizeImage(bmi_header) = BmpRowStride(width) * height
    /\ (pc = "done" /\ result = "ok") =>
          Len(data) = BmpRowStride(width) * height


---------------------------------------------------------------------------
(* BMPImage::decode_bitmap: the sizes in the headers *)

\* C29: after BMPImage::decode_bitmap of an RLE8 image, get_bitmap_size()
\* is the length of the decoded buffer and bf_size has changed by the
\* decoded length minus the get_bitmap_size() of before, for every header
\* variant and also when the stored image size was 0.
HeaderSizesFollowBuffer ==
    (pc = "tagged" /\ GetCompressionType(image0.bmi_header) = "RLE8") =>
        /\ GetBitmapSize(SizeImage(bmi_header), width, height, bit_count)
               = Len(data)
        /\ bf_size - image0.bf_size
               = Len(data) - GetBitmapSize(SizeImage(image0.bmi_header),
                                           width, height, bit_count)


\* C30: decoding is idempotent: a second Rle8::decode on a bitmap that was
\* already decoded leaves its data and its decoded tag unchanged, and a
\* second BMPImage::decode_bitmap leaves the buffer, the header (compression
\* and image size) and the file size unchanged.
DecodeIdempotent ==
    /\ (op = "decode_again" /\ pc \in {"tagged", "done"}) =>
          /\ data = data0
          /\ decoded = "RLE8"
    /\ op = "decode_bitmap_again" =>
          /\ data = data0
          /\ bmi_header = image0.bmi_header
          /\ bf_size = image0.bf_size

\* C30 witness: decode_bitmap has run a second time on an image that was
\* loaded as RLE8 with a V4 header and decoded to a buffer that is not empty.
DecodedTwiceSeen ==
    /\ op = "decode_bitmap_again"
    /\ pc = "tagged"
    /\ decoded = "RLE8"
    /\ bmi_header.kind = "V4Info"
    /\ Len(data) > 0

===========================================================================
